---- MODULE Spec2Model ----
(***************************************************************************)
(* Dreambook Salon: the appointment scheduling and availability engine.    *)
(* The datastore (appointments, payments, inventory stock, settings rows,  *)
(* blocked ranges) is the state; every request handler is an action.       *)
(* Times are minutes on a 30-minute grid.                                  *)
(***************************************************************************)
EXTENDS Integers, Sequences, FiniteSets, TLC

\* ------------------------------------------------------------------ bounds
MaxAppts == 2
MaxTicks == 1
MaxReqs == 2
MaxOverdraw == 8

\* ------------------------------------------------------- program constants
SlotMinutes == 30
DefaultMaxConcurrent == 3
DefaultBookingWindowDays == 30
MinutesPerDay == 1440

\* ------------------------------------------------------------ fixed tables
Customers == {"cust1", "cust2"}
Staff == {"staff1"}
Users == Customers \cup Staff

role(u) == IF u \in Customers THEN "customer" ELSE "staff"

\* Customers let into the staff views.
StaffOrAdminOrCustomerRoles == {"admin", "staff", "customer"}

StaffOrAdminRoles == {"admin", "staff"}
CustomerRoles == {"customer"}

Services == {"haircut", "rebond"}
Items == {"shampoo", "cream"}

\* Service.duration_minutes of the services as they were set up.
DefaultDurations == [s \in Services |-> IF s = "haircut" THEN 60 ELSE 30]

\* The ServiceItem rows of a service, in the order the queryset yields them.
service_items(s) ==
    IF s = "haircut"
    THEN << [item |-> "shampoo", qty_per_service |-> 10] >>
    ELSE << [item |-> "shampoo", qty_per_service |-> 8],
            [item |-> "cream", qty_per_service |-> 3] >>

StartTimes == {0, SlotMinutes}

StatusChoices ==
    {"pending", "confirmed", "in_progress", "completed", "no_show", "cancelled"}
CountedStatuses == {"pending", "confirmed", "in_progress"}
TerminalStatuses == {"completed", "no_show", "cancelled"}

NULL == "null"
NoReason == << >>

\* ------------------------------------------------------------------- state
VARIABLES
    appts,          \* Appointment rows; the primary key is the index
    payments,       \* Payment rows; the primary key is the index
    stock,          \* Item.stock, per item
    settingsRows,   \* AppointmentSettings rows
    blocked,        \* BlockedRange rows
    slotLimits,     \* SlotLimit rows
    serviceDuration,\* Service.duration_minutes, per service
    now,            \* timezone.now(), in minutes
    response,       \* what the last handler answered
    reqs            \* requests in flight (interleaved specifications only)

vars ==
    << appts, payments, stock, settingsRows, blocked, slotLimits,
       serviceDuration, now, response, reqs >>

\* service.duration_minutes, read from the service row.
duration_minutes(s) == serviceDuration[s]

\* ---------------------------------------------------------------- settings
DefaultSettingsRow ==
    [pk |-> 1,
     max_concurrent |-> DefaultMaxConcurrent,
     booking_window_days |-> DefaultBookingWindowDays,
     prevent_completion_on_insufficient_stock |-> TRUE]

\* get_or_create(pk=1): the rows after the call.
GetOrCreateRows(rows) ==
    IF \E r \in rows : r.pk = 1 THEN rows ELSE rows \cup {DefaultSettingsRow}

\* AppointmentSettings.get_settings(): the row returned.
get_settings(rows) == CHOOSE r \in GetOrCreateRows(rows) : r.pk = 1

\* ------------------------------------------------------------ appointments
\* An end_at that has not been given (None).
NoEndAt == -1

\* save() computes end_at from the service's duration on every call.
SaveRecomputingEndAt(row) ==
    [row EXCEPT !.end_at = row.start_at + duration_minutes(row.service)]

\* Appointment.save(): "auto-calculate end_at if not set"; the row as stored.
save(row) ==
    IF row.end_at = NoEndAt
    THEN [row EXCEPT !.end_at = row.start_at + duration_minutes(row.service)]
    ELSE row

\* The appointment the booking view builds and saves: the defaults of the
\* model's fields, status confirmed, end_at left to save().
NewAppointment(customer, service, start_at) ==
    save([customer |-> customer,
          service |-> service,
          start_at |-> start_at,
          end_at |-> NoEndAt,
          status |-> "confirmed",
          payment_state |-> "unpaid",
          cancelled_at |-> NULL,
          cancelled_by |-> NULL,
          cancellation_reason |-> "",
          refund_amount |-> 0])

ApptIds == 1..Len(appts)

\* The closed test: ranges that only touch count as overlapping.
OverlapsClosed(row, start_at, end_at) ==
    row.start_at <= end_at /\ row.end_at >= start_at

\* The half-open overlap filter of both querysets:
\* start_at__lt = end_at, end_at__gt = start_at.
Overlaps(row, start_at, end_at) ==
    row.start_at < end_at /\ row.end_at > start_at

OverlappingBlocked(start_at, end_at) ==
    {b \in blocked : Overlaps(b, start_at, end_at)}

\* blocked_ranges.first(): BlockedRange is ordered by start_at.
FirstBlocked(start_at, end_at) ==
    CHOOSE b \in OverlappingBlocked(start_at, end_at) :
        \A c \in OverlappingBlocked(start_at, end_at) : b.start_at <= c.start_at

\* Completed appointments counted as well.
OverlappingAppointmentsAndCompleted(rows, start_at, end_at, exclude_appointment_id) ==
    {i \in 1..Len(rows) :
        /\ Overlaps(rows[i], start_at, end_at)
        /\ rows[i].status \in CountedStatuses \cup {"completed"}
        /\ i # exclude_appointment_id}

\* The overlapping, counted appointments of check 4 (minus the excluded one).
OverlappingAppointments(rows, start_at, end_at, exclude_appointment_id) ==
    {i \in 1..Len(rows) :
        /\ Overlaps(rows[i], start_at, end_at)
        /\ rows[i].status \in CountedStatuses
        /\ i # exclude_appointment_id}

\* service_item.item.stock < service_item.qty_per_service
ShortOfStock(stk, si) == stk[si.item] < si.qty_per_service

\* The first ServiceItem of the service that is short of stock, 0 when none.
RECURSIVE FirstShort(_, _, _)
FirstShort(items, stk, k) ==
    IF k > Len(items) THEN 0
    ELSE IF ShortOfStock(stk, items[k]) THEN k
    ELSE FirstShort(items, stk, k + 1)

\* The blocked-range check made before the past-time check.
CheckBlockedFirst(rows, stk, srows, service, start_at, exclude_appointment_id) ==
    LET settings == get_settings(srows)
        end_at == start_at + duration_minutes(service)
        max_future == now + settings.booking_window_days * MinutesPerDay
        concurrent_count ==
            Cardinality(OverlappingAppointments(rows, start_at, end_at,
                                                exclude_appointment_id))
        short == FirstShort(service_items(service), stk, 1)
    IN  IF OverlappingBlocked(start_at, end_at) # {}
        THEN [available |-> FALSE,
              reason |-> IF FirstBlocked(start_at, end_at).reason # ""
                         THEN << "Time slot blocked",
                                 FirstBlocked(start_at, end_at).reason >>
                         ELSE << "Time slot is blocked" >>]
        ELSE IF start_at < now
        THEN [available |-> FALSE,
              reason |-> << "Cannot book appointments in the past" >>]
        ELSE IF start_at > max_future
        THEN [available |-> FALSE,
              reason |-> << "Cannot book more than days in advance",
                            settings.booking_window_days >>]
        ELSE IF concurrent_count >= settings.max_concurrent
        THEN [available |-> FALSE,
              reason |-> << "Time slot full", settings.max_concurrent >>]
        ELSE IF short # 0
        THEN [available |-> FALSE,
              reason |-> << "Insufficient inventory",
                            service_items(service)[short].item >>]
        ELSE [available |-> TRUE, reason |-> NoReason]

\* check_availability(service, start_at, exclude_appointment_id):
\* [available, reason] against the datastore given.
CheckAvailabilityIn(rows, stk, srows, service, start_at, exclude_appointment_id) ==
    LET settings == get_settings(srows)
        end_at == start_at + duration_minutes(service)
        max_future == now + settings.booking_window_days * MinutesPerDay
        concurrent_count ==
            Cardinality(OverlappingAppointments(rows, start_at, end_at,
                                                exclude_appointment_id))
        short == FirstShort(service_items(service), stk, 1)
    IN  IF start_at < now
        THEN [available |-> FALSE,
              reason |-> << "Cannot book appointments in the past" >>]
        ELSE IF start_at > max_future
        THEN [available |-> FALSE,
              reason |-> << "Cannot book more than days in advance",
                            settings.booking_window_days >>]
        ELSE IF OverlappingBlocked(start_at, end_at) # {}
        THEN [available |-> FALSE,
              reason |-> IF FirstBlocked(start_at, end_at).reason # ""
                         THEN << "Time slot blocked",
                                 FirstBlocked(start_at, end_at).reason >>
                         ELSE << "Time slot is blocked" >>]
        ELSE IF concurrent_count >= settings.max_concurrent
        THEN [available |-> FALSE,
              reason |-> << "Time slot full", settings.max_concurrent >>]
        ELSE IF short # 0
        THEN [available |-> FALSE,
              reason |-> << "Insufficient inventory",
                            service_items(service)[short].item >>]
        ELSE [available |-> TRUE, reason |-> NoReason]

check_availability(service, start_at, exclude_appointment_id) ==
    CheckAvailabilityIn(appts, stock, settingsRows, service, start_at,
                        exclude_appointment_id)

\* -------------------------------------------------------------------- Init
\* A fresh datastore holds no settings row; an administrator may have saved one.
SavedSettingsRow(m, p) ==
    [pk |-> 1, max_concurrent |-> m, booking_window_days |-> 1,
     prevent_completion_on_insufficient_stock |-> p]

InitSettingsRows ==
    { {}, {SavedSettingsRow(1, FALSE)}, {SavedSettingsRow(2, TRUE)} }

IdleReq == [op |-> "idle", pc |-> "idle"]

Init ==
    /\ serviceDuration = DefaultDurations
    /\ appts = << >>
    /\ payments = << >>
    /\ stock = [i \in Items |-> IF i = "shampoo" THEN 12 ELSE 3]
    /\ settingsRows \in InitSettingsRows
    /\ blocked = {[start_at |-> 60, end_at |-> 120, reason |-> "Holiday"]}
    /\ slotLimits = {}
    /\ now = 0
    /\ response = [outcome |-> "none", detail |-> NoReason]
    /\ reqs = [r \in 1..MaxReqs |-> IdleReq]

\* What the handler answers: the outcome and the message it flashes.
Respond(outcome, detail) ==
    response' = [outcome |-> outcome, detail |-> detail]

\* ------------------------------------------------------------------ Create
\* Booking takes one of every item out of stock.
CreateDeductingStock(u, service, start_at) ==
    /\ IF role(u) \notin CustomerRoles
       THEN /\ Respond("forbidden", NoReason)
            /\ UNCHANGED << appts, settingsRows, stock >>
       ELSE LET verdict == check_availability(service, start_at, 0)
            IN  /\ settingsRows' = GetOrCreateRows(settingsRows)
                /\ IF ~verdict.available
                   THEN /\ Respond("error", verdict.reason)
                        /\ UNCHANGED << appts, stock >>
                   ELSE /\ Len(appts) < MaxAppts
                        /\ appts' = Append(appts, NewAppointment(u, service, start_at))
                        /\ stock' = [i \in Items |-> stock[i] - 1]
                        /\ Respond("success", NoReason)
    /\ UNCHANGED << payments, blocked, serviceDuration, slotLimits, now, reqs >>

\* The appointment is saved whatever the availability check answered.
CreateIgnoringVerdict(u, service, start_at) ==
    /\ IF role(u) \notin CustomerRoles
       THEN /\ Respond("forbidden", NoReason)
            /\ UNCHANGED << appts, settingsRows >>
       ELSE /\ settingsRows' = GetOrCreateRows(settingsRows)
            /\ Len(appts) < MaxAppts
            /\ appts' = Append(appts, NewAppointment(u, service, start_at))
            /\ Respond("success", NoReason)
    /\ UNCHANGED << payments, stock, blocked, serviceDuration, slotLimits, now, reqs >>

\* AppointmentBookingView.form_valid (behind CustomerRequiredMixin).
Create(u, service, start_at) ==
    /\ IF role(u) \notin CustomerRoles
       THEN /\ Respond("forbidden", NoReason)
            /\ UNCHANGED << appts, settingsRows >>
       ELSE LET verdict == check_availability(service, start_at, 0)
            IN  /\ settingsRows' = GetOrCreateRows(settingsRows)
                /\ IF ~verdict.available
                   THEN /\ Respond("error", verdict.reason)
                        /\ UNCHANGED appts
                   ELSE /\ Len(appts) < MaxAppts
                        /\ appts' = Append(appts, NewAppointment(u, service, start_at))
                        /\ Respond("success", NoReason)
    /\ UNCHANGED << payments, stock, blocked, serviceDuration, slotLimits, now, reqs >>

\* ------------------------------------------------------------------ Cancel
CancelReasons == {"changed plans"}

CannotCancelForgetsNoShow(appt) == appt.status \in {"completed", "cancelled"}

\* "Can't cancel completed/no-show/already cancelled"
CannotCancel(appt) == appt.status \in {"completed", "no_show", "cancelled"}

\* The view answers success without saving the appointment.
CancelViewWithoutSave(pk, u, reason) ==
    /\ pk \in ApptIds
    /\ IF role(u) = "customer" /\ appts[pk].customer # u
       THEN Respond("error", << "You can only cancel your own appointments" >>)
       ELSE IF CannotCancel(appts[pk])
       THEN Respond("error", << "Cannot cancel appointment with status" >>)
       ELSE Respond("success", NoReason)
    /\ UNCHANGED << appts, payments, stock, settingsRows, blocked, serviceDuration, slotLimits, now, reqs >>

\* AppointmentCancelView.post (behind LoginRequiredMixin).
CancelView(pk, u, reason) ==
    /\ pk \in ApptIds
    /\ IF role(u) = "customer" /\ appts[pk].customer # u
       THEN /\ Respond("error", << "You can only cancel your own appointments" >>)
            /\ UNCHANGED appts
       ELSE IF CannotCancel(appts[pk])
       THEN /\ Respond("error", << "Cannot cancel appointment with status" >>)
            /\ UNCHANGED appts
       ELSE /\ appts' = [appts EXCEPT
                           ![pk] = save([appts[pk] EXCEPT !.status = "cancelled"])]
            /\ Respond("success", NoReason)
    /\ UNCHANGED << payments, stock, settingsRows, blocked, serviceDuration, slotLimits, now, reqs >>

\* ---------------------------------------------------------------- Complete
\* Reports the first deficient item only.
InsufficientItemsFirstOnly(items, stk, k) ==
    IF FirstShort(items, stk, k) = 0 THEN << >>
    ELSE << items[FirstShort(items, stk, k)].item >>

\* The names of the items short of stock, in ServiceItem order (lines 377-380).
RECURSIVE InsufficientItems(_, _, _)
InsufficientItems(items, stk, k) ==
    IF k > Len(items) THEN << >>
    ELSE IF ShortOfStock(stk, items[k])
    THEN << items[k].item >> \o InsufficientItems(items, stk, k + 1)
    ELSE InsufficientItems(items, stk, k + 1)

DeductItemByOne(stk, si) == [stk EXCEPT ![si.item] = stk[si.item] - 1]

\* One pass of the deduction loop for ServiceItem k: item.stock -= qty; save.
DeductItem(stk, si) ==
    [stk EXCEPT ![si.item] = stk[si.item] - si.qty_per_service]

\* The whole deduction loop (lines 390-393).
RECURSIVE DeductAll(_, _, _)
DeductAll(stk, items, k) ==
    IF k > Len(items) THEN stk
    ELSE DeductAll(DeductItem(stk, items[k]), items, k + 1)

NotInProgressOrConfirmed(appt) == appt.status \notin {"in_progress", "confirmed"}

\* "Can only complete in_progress appointments"
NotInProgress(appt) == appt.status # "in_progress"

\* The body of AppointmentCompleteView.post, entered once dispatch let the
\* request through.
CompleteBody(pk) ==
    LET settings == get_settings(settingsRows)
        items == service_items(appts[pk].service)
        insufficient_items == InsufficientItems(items, stock, 1)
    IN  /\ settingsRows' = GetOrCreateRows(settingsRows)
        /\ IF NotInProgress(appts[pk])
           THEN /\ Respond("error",
                           << "Only in-progress appointments can be completed" >>)
                /\ UNCHANGED << appts, stock >>
           ELSE IF /\ settings.prevent_completion_on_insufficient_stock
                   /\ insufficient_items # << >>
           THEN /\ Respond("error",
                           << "Cannot complete: Insufficient inventory for",
                              insufficient_items >>)
                /\ UNCHANGED << appts, stock >>
           ELSE /\ \A i \in Items : DeductAll(stock, items, 1)[i] >= -MaxOverdraw
                /\ stock' = DeductAll(stock, items, 1)
                /\ appts' = [appts EXCEPT
                               ![pk] = save([appts[pk] EXCEPT !.status = "completed"])]
                /\ Respond("success", NoReason)

\* AppointmentCompleteView.post behind StaffOrAdminRequiredMixin.dispatch.
Complete(pk, u) ==
    /\ pk \in ApptIds
    /\ IF role(u) \notin StaffOrAdminRoles
       THEN /\ Respond("forbidden", NoReason)
            /\ UNCHANGED << appts, stock, settingsRows >>
       ELSE CompleteBody(pk)
    /\ UNCHANGED << payments, blocked, serviceDuration, slotLimits, now, reqs >>

\* ------------------------------------------------------------ UpdateStatus
PostedStatuses == StatusChoices \cup {"bogus"}

\* No status is handed over to the complete view.
HandedToCompleteViewNever(new_status) == FALSE

\* "If marking as completed, use the complete view instead"
HandedToCompleteView(new_status) == new_status = "completed"

\* AppointmentUpdateStatusView.post behind StaffOrAdminRequiredMixin.dispatch.
UpdateStatus(pk, new_status, u) ==
    /\ pk \in ApptIds
    /\ IF role(u) \notin StaffOrAdminRoles
       THEN /\ Respond("forbidden", NoReason)
            /\ UNCHANGED << appts, stock, settingsRows >>
       ELSE IF new_status \notin StatusChoices
       THEN /\ Respond("error", << "Invalid status" >>)
            /\ UNCHANGED << appts, stock, settingsRows >>
       ELSE IF HandedToCompleteView(new_status)
       THEN CompleteBody(pk)
       ELSE /\ appts' = [appts EXCEPT
                           ![pk] = save([appts[pk] EXCEPT !.status = new_status])]
            /\ Respond("success", NoReason)
            /\ UNCHANGED << stock, settingsRows >>
    /\ UNCHANGED << payments, blocked, serviceDuration, slotLimits, now, reqs >>

\* The clock moves on.
Tick ==
    /\ now < MaxTicks * SlotMinutes
    /\ now' = now + SlotMinutes
    /\ UNCHANGED << appts, payments, stock, settingsRows, blocked, serviceDuration, slotLimits, response, reqs >>

\* The customers are interchangeable: cust1 books, cust2 is the customer who
\* acts on appointments that are not theirs.
BookingUsers == {"cust1", "staff1"}
StaffViewUsers == {"cust2", "staff1"}

Next ==
    \/ \E u \in BookingUsers, s \in Services, t \in StartTimes : Create(u, s, t)
    \/ \E pk \in 1..MaxAppts, u \in Users, reason \in CancelReasons :
          CancelView(pk, u, reason)
    \/ \E pk \in 1..MaxAppts, u \in StaffViewUsers : Complete(pk, u)
    \/ \E pk \in 1..MaxAppts, st \in PostedStatuses, u \in StaffViewUsers :
          UpdateStatus(pk, st, u)
    \/ Tick

Spec == Init /\ [][Next]_vars

\* =========================================== interleaved booking requests
\* AppointmentBookingView.form_valid runs outside any transaction: the
\* availability check (lines 164-171) and appointment.save() (line 177) are
\* separate datastore accesses, and other requests run between them.

\* Lines 164-171: build the appointment, run check_availability.
CreateCheck(r, u, service, start_at) ==
    /\ reqs[r].pc = "idle"
    /\ role(u) \in CustomerRoles
    /\ LET verdict == check_availability(service, start_at, 0)
       IN  reqs' = [reqs EXCEPT ![r] =
                       [op |-> "create", pc |-> "checked", customer |-> u,
                        service |-> service, start_at |-> start_at,
                        is_available |-> verdict.available,
                        reason |-> verdict.reason]]
    /\ settingsRows' = GetOrCreateRows(settingsRows)
    /\ UNCHANGED << appts, payments, stock, blocked, serviceDuration, slotLimits, now, response >>

\* Lines 173-182: answer with the reason, or save the appointment.
CreateSave(r) ==
    /\ reqs[r].op = "create"
    /\ reqs[r].pc = "checked"
    /\ IF ~reqs[r].is_available
       THEN /\ Respond("error", reqs[r].reason)
            /\ UNCHANGED appts
       ELSE /\ Len(appts) < MaxAppts
            /\ appts' = Append(appts, NewAppointment(reqs[r].customer,
                                                     reqs[r].service,
                                                     reqs[r].start_at))
            /\ Respond("success", NoReason)
    /\ reqs' = [reqs EXCEPT ![r] = IdleReq]
    /\ UNCHANGED << payments, stock, settingsRows, blocked, serviceDuration, slotLimits, now >>

CreateRaceNext ==
    \/ \E r \in 1..MaxReqs, s \in Services, t \in StartTimes :
          CreateCheck(r, "cust1", s, t)
    \/ \E r \in 1..MaxReqs : CreateSave(r)

CreateRaceSpec == Init /\ [][CreateRaceNext]_vars

\* ======================================== interleaved completion requests
\* AppointmentCompleteView.post runs outside any transaction and takes no
\* lock: every queryset access and every save() is a datastore access of its
\* own, and other requests run between them.

\* Lines 367-387: load the appointment and the settings, check the status
\* and (when the setting asks for it) the stock.
CompleteBegin(r, pk) ==
    /\ reqs[r].pc = "idle"
    /\ pk \in ApptIds
    /\ settingsRows' = GetOrCreateRows(settingsRows)
    /\ LET settings == get_settings(settingsRows)
           items == service_items(appts[pk].service)
           insufficient_items == InsufficientItems(items, stock, 1)
       IN  IF NotInProgress(appts[pk])
           THEN /\ Respond("error",
                           << "Only in-progress appointments can be completed" >>)
                /\ UNCHANGED reqs
           ELSE IF /\ settings.prevent_completion_on_insufficient_stock
                   /\ insufficient_items # << >>
           THEN /\ Respond("error",
                           << "Cannot complete: Insufficient inventory for",
                              insufficient_items >>)
                /\ UNCHANGED reqs
           ELSE /\ reqs' = [reqs EXCEPT ![r] =
                               [op |-> "complete", pc |-> "read", pk |-> pk,
                                appointment |-> appts[pk], k |-> 1, item_stock |-> 0]]
                /\ UNCHANGED response
    /\ UNCHANGED << appts, payments, stock, blocked, serviceDuration, slotLimits, now >>

\* Line 391: item = service_item.item fetches the item row.
CompleteReadItem(r) ==
    /\ reqs[r].op = "complete"
    /\ reqs[r].pc = "read"
    /\ LET items == service_items(reqs[r].appointment.service)
       IN  IF reqs[r].k > Len(items)
           THEN reqs' = [reqs EXCEPT ![r].pc = "save"]
           ELSE reqs' = [reqs EXCEPT ![r].pc = "write",
                                     ![r].item_stock = stock[items[reqs[r].k].item]]
    /\ UNCHANGED << appts, payments, stock, settingsRows, blocked, serviceDuration, slotLimits, now, response >>

\* Lines 392-393: item.stock -= qty_per_service on the fetched row; item.save().
CompleteWriteItem(r) ==
    /\ reqs[r].op = "complete"
    /\ reqs[r].pc = "write"
    /\ LET si == service_items(reqs[r].appointment.service)[reqs[r].k]
       IN  stock' = [stock EXCEPT ![si.item] = reqs[r].item_stock - si.qty_per_service]
    /\ reqs' = [reqs EXCEPT ![r].pc = "read", ![r].k = reqs[r].k + 1]
    /\ UNCHANGED << appts, payments, settingsRows, blocked, serviceDuration, slotLimits, now, response >>

\* Lines 396-397: appointment.save() writes every column of the loaded row.
CompleteSave(r) ==
    /\ reqs[r].op = "complete"
    /\ reqs[r].pc = "save"
    /\ appts' = [appts EXCEPT ![reqs[r].pk] =
                    save([reqs[r].appointment EXCEPT !.status = "completed"])]
    /\ Respond("success", NoReason)
    /\ reqs' = [reqs EXCEPT ![r] = IdleReq]
    /\ UNCHANGED << payments, stock, settingsRows, blocked, serviceDuration, slotLimits, now >>

\* Two appointments of cust1 that staff have moved to in_progress, with
\* completion prevented on insufficient stock.
InProgressAppointment(service, start_at) ==
    [NewAppointment("cust1", service, start_at) EXCEPT !.status = "in_progress"]

CompleteRaceInit ==
    /\ serviceDuration = DefaultDurations
    /\ appts \in {<< InProgressAppointment(s, 0),
                     InProgressAppointment("rebond", SlotMinutes) >> : s \in Services}
    /\ payments = << >>
    /\ stock = [i \in Items |-> IF i = "shampoo" THEN 12 ELSE 3]
    /\ settingsRows \in { {}, {SavedSettingsRow(2, TRUE)} }
    /\ blocked = {[start_at |-> 60, end_at |-> 120, reason |-> "Holiday"]}
    /\ slotLimits = {}
    /\ now = 0
    /\ response = [outcome |-> "none", detail |-> NoReason]
    /\ reqs = [r \in 1..MaxReqs |-> IdleReq]

\* Request r is a completion request for appointment r: the requests in
\* flight are for different appointments.
CompleteRaceNext ==
    \/ \E r \in 1..MaxReqs : CompleteBegin(r, r)
    \/ \E r \in 1..MaxReqs : CompleteReadItem(r)
    \/ \E r \in 1..MaxReqs : CompleteWriteItem(r)
    \/ \E r \in 1..MaxReqs : CompleteSave(r)

CompleteRaceSpec == CompleteRaceInit /\ [][CompleteRaceNext]_vars

\* ================================================= the refund computation
\* Payment.objects.filter(appointment=self, status=PAID), newest first
\* (Payment is ordered by -created_at): the amounts of the paid payments.
RECURSIVE PaidPaymentAmounts(_, _, _)
PaidPaymentAmounts(rows, pk, k) ==
    IF k = 0 THEN << >>
    ELSE IF rows[k].appointment = pk /\ rows[k].status = "paid"
    THEN << rows[k].amount >> \o PaidPaymentAmounts(rows, pk, k - 1)
    ELSE PaidPaymentAmounts(rows, pk, k - 1)

\* hours_until = (start_at - now).total_seconds() / 3600 compared with a whole
\* number of hours, on times in minutes.
HoursUntilExceeds(start_at, now_, hours) == (start_at - now_) > hours * 60

\* payment.amount * (percentage / 100): percentage / 100 is a float, and
\* Decimal * float raises TypeError, whatever the operands.
DecimalTimesFloatRaises(amount, percentage) == TRUE

\* Appointment.calculate_refund(): what it returns, or that it raised.
calculate_refund(appt, pk, rows, now_) ==
    LET paid == PaidPaymentAmounts(rows, pk, Len(rows))
        percentage ==
            IF HoursUntilExceeds(appt.start_at, now_, 48) THEN 100
            ELSE IF HoursUntilExceeds(appt.start_at, now_, 24) THEN 50
            ELSE 0
    IN  IF paid = << >>
        THEN [raised |-> FALSE, percentage |-> 0, refund_amt |-> 0]
        ELSE IF DecimalTimesFloatRaises(paid[1], percentage)
        THEN [raised |-> TRUE, percentage |-> percentage, refund_amt |-> 0]
        ELSE [raised |-> FALSE, percentage |-> percentage,
              refund_amt |-> (paid[1] * percentage) \div 100]

\* A call of appointment.calculate_refund(): the answer is what it returned.
CalculateRefund(pk) ==
    /\ pk \in ApptIds
    /\ LET res == calculate_refund(appts[pk], pk, payments, now)
       IN  IF res.raised
           THEN Respond("TypeError", NoReason)
           ELSE Respond("refund", << res.percentage, res.refund_amt >>)
    /\ UNCHANGED << appts, payments, stock, settingsRows, blocked, serviceDuration, slotLimits, now, reqs >>

\* Appointment.cancel(cancelled_by, reason): nothing is saved when
\* calculate_refund raises.
CancelMethod(pk, u, reason) ==
    /\ pk \in ApptIds
    /\ LET res == calculate_refund(appts[pk], pk, payments, now)
       IN  IF res.raised
           THEN /\ Respond("TypeError", NoReason)
                /\ UNCHANGED appts
           ELSE /\ appts' = [appts EXCEPT ![pk] =
                               save([appts[pk] EXCEPT
                                        !.status = "cancelled",
                                        !.cancelled_at = now,
                                        !.cancelled_by = u,
                                        !.cancellation_reason = reason,
                                        !.refund_amount = res.refund_amt])]
                /\ Respond("cancelled", << res.percentage, res.refund_amt >>)
    /\ UNCHANGED << payments, stock, settingsRows, blocked, serviceDuration, slotLimits, now, reqs >>

\* One booked appointment some time ahead, with the payments made for it.
RefundStartTimes ==
    {0, 60, 1380, 1439, 1440, 1441, 1500, 2820, 2879, 2880, 2881, 2940, 3000}

PaymentRow(pk, amount, status, payment_type) ==
    [appointment |-> pk, method |-> "gcash", amount |-> amount,
     status |-> status, payment_type |-> payment_type]

RefundInit ==
    /\ serviceDuration = DefaultDurations
    /\ appts \in {<< NewAppointment("cust1", "haircut", t) >> : t \in RefundStartTimes}
    /\ payments \in { << >>,
                      << PaymentRow(1, 500, "pending", "full") >>,
                      << PaymentRow(1, 500, "failed", "full") >>,
                      << PaymentRow(1, 500, "paid", "full") >>,
                      << PaymentRow(1, 1000, "paid", "full") >> }
    /\ stock = [i \in Items |-> IF i = "shampoo" THEN 12 ELSE 3]
    /\ settingsRows = {DefaultSettingsRow}
    /\ blocked = {}
    /\ slotLimits = {}
    /\ now = 0
    /\ response = [outcome |-> "none", detail |-> NoReason]
    /\ reqs = [r \in 1..MaxReqs |-> IdleReq]

RefundNext ==
    \/ \E pk \in 1..MaxAppts : CalculateRefund(pk)
    \/ \E pk \in 1..MaxAppts, u \in Users, reason \in CancelReasons :
          CancelMethod(pk, u, reason)

RefundSpec == RefundInit /\ [][RefundNext]_vars

\* ==================================================== availability lookups
\* utils.check_slot_availability(service, start_at, end_at, duration_minutes):
\* the checks of check_availability with the calendar's wording, and no
\* excluded appointment.
\* The slot counts as full only when the count exceeds max_concurrent.
CheckSlotFullWhenOver(service, start_at, end_at, duration) ==
    LET settings == get_settings(settingsRows)
        max_future == now + settings.booking_window_days * MinutesPerDay
        overlapping_appointments ==
            Cardinality(OverlappingAppointments(appts, start_at, end_at, 0))
        short == FirstShort(service_items(service), stock, 1)
    IN  IF start_at < now
        THEN [available |-> FALSE, reason |-> << "Time has passed" >>]
        ELSE IF start_at > max_future
        THEN [available |-> FALSE,
              reason |-> << "Beyond booking window", settings.booking_window_days >>]
        ELSE IF OverlappingBlocked(start_at, end_at) # {}
        THEN [available |-> FALSE,
              reason |-> IF FirstBlocked(start_at, end_at).reason = ""
                         THEN << "Blocked" >>
                         ELSE << FirstBlocked(start_at, end_at).reason >>]
        ELSE IF overlapping_appointments > settings.max_concurrent
        THEN [available |-> FALSE, reason |-> << "Full" >>]
        ELSE IF short # 0
        THEN [available |-> FALSE,
              reason |-> << "No stock", service_items(service)[short].item >>]
        ELSE [available |-> TRUE, reason |-> NoReason]

check_slot_availability(service, start_at, end_at, duration) ==
    LET settings == get_settings(settingsRows)
        max_future == now + settings.booking_window_days * MinutesPerDay
        overlapping_appointments ==
            Cardinality(OverlappingAppointments(appts, start_at, end_at, 0))
        short == FirstShort(service_items(service), stock, 1)
    IN  IF start_at < now
        THEN [available |-> FALSE, reason |-> << "Time has passed" >>]
        ELSE IF start_at > max_future
        THEN [available |-> FALSE,
              reason |-> << "Beyond booking window", settings.booking_window_days >>]
        ELSE IF OverlappingBlocked(start_at, end_at) # {}
        THEN [available |-> FALSE,
              reason |-> IF FirstBlocked(start_at, end_at).reason = ""
                         THEN << "Blocked" >>
                         ELSE << FirstBlocked(start_at, end_at).reason >>]
        ELSE IF overlapping_appointments >= settings.max_concurrent
        THEN [available |-> FALSE, reason |-> << "Full" >>]
        ELSE IF short # 0
        THEN [available |-> FALSE,
              reason |-> << "No stock", service_items(service)[short].item >>]
        ELSE [available |-> TRUE, reason |-> NoReason]

\* CheckSlotAvailabilityView.post (behind LoginRequiredMixin), for a service,
\* date and time that parse.
CheckSlot(service, start_at) ==
    /\ LET end_at == start_at + duration_minutes(service)
           verdict == check_slot_availability(service, start_at, end_at,
                                              duration_minutes(service))
       IN  IF verdict.available
           THEN Respond("slot_available", NoReason)
           ELSE Respond("slot_unavailable", verdict.reason)
    /\ settingsRows' = GetOrCreateRows(settingsRows)
    /\ UNCHANGED << appts, payments, stock, blocked, serviceDuration, slotLimits, now, reqs >>

\* A call of check_availability(service, start_at, exclude_appointment_id):
\* the answer is the tuple it returned.
CheckAvailability(service, start_at, exclude_appointment_id) ==
    /\ LET verdict == check_availability(service, start_at, exclude_appointment_id)
       IN  IF verdict.available
           THEN Respond("available", NoReason)
           ELSE Respond("unavailable", verdict.reason)
    /\ settingsRows' = GetOrCreateRows(settingsRows)
    /\ UNCHANGED << appts, payments, stock, blocked, serviceDuration, slotLimits, now, reqs >>

\* The start times asked for: around the blocked ranges, around a booked
\* hour, and around the end of a one-day booking window.
AvailStartTimes == {0, 30, 120, 150, 180, 1470, 1500}

\* The start times booked: before and over the blocked ranges, right at their
\* end, and beyond a one-day booking window.
BookStartTimes == {0, 30, 120, 1500}

\* The datastore the lookups run against: an administrator has saved the
\* settings, blocked ranges (one with no reason) and possibly a slot limit for
\* the hour 120..180; one appointment was booked for that hour, and may have
\* been cancelled.
BlockedChoices ==
    { {[start_at |-> 30, end_at |-> 60, reason |-> "Holiday"],
       [start_at |-> 60, end_at |-> 120, reason |-> "Renovation"]},
      {[start_at |-> 30, end_at |-> 60, reason |-> ""]} }

SlotLimitRow(start_at, end_at, max_slots) ==
    [start_at |-> start_at, end_at |-> end_at, max_slots |-> max_slots]

AvailInit ==
    /\ serviceDuration = DefaultDurations
    /\ appts \in {<< [NewAppointment("cust1", "haircut", 120) EXCEPT !.status = st] >> :
                     st \in {"confirmed", "cancelled"}}
    /\ payments = << >>
    /\ stock \in {[i \in Items |-> IF i = "shampoo" THEN 12 ELSE 3],
                  [i \in Items |-> IF i = "shampoo" THEN 9 ELSE 3]}
    /\ settingsRows \in {{SavedSettingsRow(1, TRUE)}, {SavedSettingsRow(2, TRUE)}}
    /\ blocked \in BlockedChoices
    /\ slotLimits \in {{}, {SlotLimitRow(120, 180, 1)}}
    /\ now = 0
    /\ response = [outcome |-> "none", detail |-> NoReason]
    /\ reqs = [r \in 1..MaxReqs |-> IdleReq]

\* Bookings against that datastore.
AvailNext ==
    \/ \E u \in BookingUsers, s \in Services, t \in BookStartTimes : Create(u, s, t)
    \/ \E pk \in 1..MaxAppts, reason \in CancelReasons :
          CancelView(pk, "cust1", reason)
    \/ Tick

AvailSpec == AvailInit /\ [][AvailNext]_vars

\* Lookups against that datastore, which may hold a second appointment inside
\* the booked hour.
LookupInit ==
    /\ serviceDuration = DefaultDurations
    /\ appts \in {<< >>} \cup
           {<< [NewAppointment("cust1", "haircut", 120) EXCEPT !.status = st] >> :
               st \in StatusChoices} \cup
           {<< [NewAppointment("cust1", "haircut", 120) EXCEPT !.status = st],
               NewAppointment("cust2", "rebond", 150) >> : st \in StatusChoices}
    /\ payments = << >>
    /\ stock \in {[i \in Items |-> IF i = "shampoo" THEN 12 ELSE 3],
                  [i \in Items |-> IF i = "shampoo" THEN 9 ELSE 3]}
    /\ settingsRows \in {{SavedSettingsRow(1, TRUE)}, {SavedSettingsRow(2, TRUE)}}
    /\ blocked \in BlockedChoices
    /\ slotLimits \in {{}, {SlotLimitRow(120, 180, 1)}}
    /\ now = 0
    /\ response = [outcome |-> "none", detail |-> NoReason]
    /\ reqs = [r \in 1..MaxReqs |-> IdleReq]

LookupNext ==
    \/ \E s \in Services, t \in AvailStartTimes, x \in 0..MaxAppts :
          CheckAvailability(s, t, x)
    \/ \E s \in Services, t \in AvailStartTimes : CheckSlot(s, t)
    \/ Tick

LookupSpec == LookupInit /\ [][LookupNext]_vars

\* ======================================================== slot enumeration
MinutesPerHour == 60

\* The loop stops before a slot that would end exactly at end_time.
SlotsFromEndExclusive(service, current_time, end_time, interval_minutes) ==
    LET RECURSIVE Rest(_)
        Rest(t) ==
            IF t + duration_minutes(service) < end_time
            THEN << [datetime |-> t,
                     is_available |->
                         check_slot_availability(service, t, t + duration_minutes(service),
                                                 duration_minutes(service)).available,
                     reason |->
                         check_slot_availability(service, t, t + duration_minutes(service),
                                                 duration_minutes(service)).reason] >>
                 \o Rest(t + interval_minutes)
            ELSE << >>
    IN  Rest(current_time)

\* The loop of get_available_slots (lines 195-210) from current_time on: one
\* dict for every slot that ends by end_time, with the verdict of
\* check_slot_availability; 'time' is 'datetime' formatted.
RECURSIVE SlotsFrom(_, _, _, _)
SlotsFrom(service, current_time, end_time, interval_minutes) ==
    IF current_time + duration_minutes(service) <= end_time
    THEN LET slot_end == current_time + duration_minutes(service)
             verdict == check_slot_availability(service, current_time, slot_end,
                                                duration_minutes(service))
         IN  << [datetime |-> current_time,
                 is_available |-> verdict.available,
                 reason |-> verdict.reason] >>
             \o SlotsFrom(service, current_time + interval_minutes, end_time,
                          interval_minutes)
    ELSE << >>

\* get_available_slots(service, date, start_hour, end_hour, interval_minutes):
\* the list returned; date is the number of the day.
get_available_slots(service, date, start_hour, end_hour, interval_minutes) ==
    SlotsFrom(service,
              date * MinutesPerDay + start_hour * MinutesPerHour,
              date * MinutesPerDay + end_hour * MinutesPerHour,
              interval_minutes)

\* A call of get_available_slots: the answer is the list it returned. Line
\* 181 reads the settings, which creates the row when there is none.
GetAvailableSlots(service, date, start_hour, end_hour, interval_minutes) ==
    /\ Respond("slots", get_available_slots(service, date, start_hour, end_hour,
                                            interval_minutes))
    /\ settingsRows' = GetOrCreateRows(settingsRows)
    /\ UNCHANGED << appts, payments, stock, blocked, serviceDuration, slotLimits, now, reqs >>

\* AppointmentDetailView (behind LoginRequiredMixin): a customer finds only
\* their own appointments; the context holds the slots of the appointment's
\* day between 9 and 18 o'clock, every 30 minutes.
AppointmentDetail(pk, u) ==
    /\ pk \in ApptIds
    /\ IF role(u) = "customer" /\ appts[pk].customer # u
       THEN /\ Respond("not_found", NoReason)
            /\ UNCHANGED settingsRows
       ELSE /\ Respond("detail",
                       get_available_slots(appts[pk].service,
                                           appts[pk].start_at \div MinutesPerDay,
                                           9, 18, SlotMinutes))
            /\ settingsRows' = GetOrCreateRows(settingsRows)
    /\ UNCHANGED << appts, payments, stock, blocked, serviceDuration, slotLimits, now, reqs >>

\* The business hours, the days and the intervals asked for.
BusinessHours == {<< 0, 0 >>, << 0, 1 >>, << 0, 2 >>, << 2, 4 >>}
SlotDates == {0, 1}
SlotIntervals == {30, 45}

\* The datastore of the lookups, possibly before the settings were ever read,
\* and with a haircut that takes 60 or 90 minutes.
SlotsInit ==
    /\ serviceDuration \in {DefaultDurations,
                            [DefaultDurations EXCEPT !["haircut"] = 90]}
    /\ appts \in {<< [NewAppointment("cust1", "haircut", 120) EXCEPT !.status = st] >> :
                     st \in {"confirmed", "cancelled"}}
    /\ payments = << >>
    /\ stock \in {[i \in Items |-> IF i = "shampoo" THEN 12 ELSE 3],
                  [i \in Items |-> IF i = "shampoo" THEN 9 ELSE 3]}
    /\ settingsRows \in {{}, {SavedSettingsRow(1, TRUE)}}
    /\ blocked \in BlockedChoices
    /\ slotLimits = {}
    /\ now = 0
    /\ response = [outcome |-> "none", detail |-> NoReason]
    /\ reqs = [r \in 1..MaxReqs |-> IdleReq]

SlotsNext ==
    \/ \E s \in Services, d \in SlotDates, h \in BusinessHours, i \in SlotIntervals :
          GetAvailableSlots(s, d, h[1], h[2], i)
    \/ \E pk \in 1..MaxAppts, u \in {"cust1", "cust2"} : AppointmentDetail(pk, u)
    \/ Tick

SlotsSpec == SlotsInit /\ [][SlotsNext]_vars

\* ============================================== the settings and the admin
\* A call of AppointmentSettings.get_settings(): the answer is the row it
\* returned.
GetSettings ==
    /\ LET settings == get_settings(settingsRows)
       IN  Respond("settings", << settings.pk, settings.max_concurrent,
                                  settings.booking_window_days >>)
    /\ settingsRows' = GetOrCreateRows(settingsRows)
    /\ UNCHANGED << appts, payments, stock, blocked, serviceDuration, slotLimits, now, reqs >>

\* Adding is always permitted.
HasAddPermissionAlways(rows) == TRUE

\* AppointmentSettingsAdmin.has_add_permission:
\* "Prevent adding more than one settings instance."
has_add_permission(rows) == rows = {}

\* The key the datastore gives a row added without one. Settings rows are
\* never deleted, so it is one more than the largest key in use.
NextSettingsPk(rows) ==
    IF rows = {} THEN 1
    ELSE (CHOOSE k \in {r.pk : r \in rows} : \A r \in rows : r.pk <= k) + 1

\* The admin's add view for AppointmentSettings (the admin site admits staff
\* users only).
AdminAddSettings(u, max_concurrent, prevent) ==
    /\ IF role(u) \notin StaffOrAdminRoles \/ ~has_add_permission(settingsRows)
       THEN /\ Respond("forbidden", NoReason)
            /\ UNCHANGED settingsRows
       ELSE /\ settingsRows' = settingsRows \cup
                   {[SavedSettingsRow(max_concurrent, prevent)
                        EXCEPT !.pk = NextSettingsPk(settingsRows)]}
            /\ Respond("added", NoReason)
    /\ UNCHANGED << appts, payments, stock, blocked, serviceDuration, slotLimits, now, reqs >>

\* The admin's change view: the posted fields replace those of the row.
AdminChangeSettings(u, pk, max_concurrent, prevent) ==
    /\ \E r \in settingsRows : r.pk = pk
    /\ IF role(u) \notin StaffOrAdminRoles
       THEN /\ Respond("forbidden", NoReason)
            /\ UNCHANGED settingsRows
       ELSE /\ settingsRows' =
                   {IF r.pk = pk
                    THEN [r EXCEPT !.max_concurrent = max_concurrent,
                                   !.prevent_completion_on_insufficient_stock = prevent]
                    ELSE r : r \in settingsRows}
            /\ Respond("changed", NoReason)
    /\ UNCHANGED << appts, payments, stock, blocked, serviceDuration, slotLimits, now, reqs >>

\* AppointmentSettingsAdmin.has_delete_permission:
\* "Prevent deleting the settings instance."
has_delete_permission(row) == FALSE

\* The admin's delete view and its "delete selected" action.
AdminDeleteSettings(u, pk) ==
    /\ \E r \in settingsRows : r.pk = pk
    /\ IF \/ role(u) \notin StaffOrAdminRoles
          \/ ~has_delete_permission(CHOOSE r \in settingsRows : r.pk = pk)
       THEN /\ Respond("forbidden", NoReason)
            /\ UNCHANGED settingsRows
       ELSE /\ settingsRows' = {r \in settingsRows : r.pk # pk}
            /\ Respond("deleted", NoReason)
    /\ UNCHANGED << appts, payments, stock, blocked, serviceDuration, slotLimits, now, reqs >>

\* Bookings and cancellations while the settings are read and administered.
AdminNext ==
    \/ GetSettings
    \/ \E u \in StaffViewUsers, m \in 1..2 : AdminAddSettings(u, m, TRUE)
    \/ \E u \in StaffViewUsers, pk \in 1..2, m \in 1..2 :
          AdminChangeSettings(u, pk, m, TRUE)
    \/ \E u \in StaffViewUsers, pk \in 1..2 : AdminDeleteSettings(u, pk)
    \/ \E s \in Services, t \in StartTimes : Create("cust1", s, t)
    \/ \E pk \in 1..MaxAppts, reason \in CancelReasons : CancelView(pk, "cust1", reason)

AdminSpec == Init /\ [][AdminNext]_vars

\* ================================================================ payments
MaxPayments == 3

\* Service.price.
price(s) == IF s = "haircut" THEN 500 ELSE 1000

\* Whether Service has the fields requires_downpayment and
\* downpayment_amount: the model declares neither.
ServiceHasDownpaymentFields == FALSE

PaymentIds == 1..Len(payments)

\* settings.DEMO_PAYMENT_MODE; 'deterministic' when the setting is absent.
DemoPaymentModes == {"deterministic", "always_success", "always_fail", "random"}

\* simulate_demo_payment(payment_method) under a mode, with below_rate the
\* outcome of random.random() < success_rate. The deterministic branch
\* compares with Payment.Method.PAYMAYA, which Payment.Method does not
\* have: the comparison raises for every method other than gcash.
simulate_demo_payment(mode, payment_method, below_rate) ==
    IF mode = "always_success" THEN "success"
    ELSE IF mode = "always_fail" THEN "failure"
    ELSE IF mode = "random"
    THEN (IF below_rate THEN "success" ELSE "failure")
    ELSE IF payment_method = "gcash" THEN "success"
    ELSE "raises"

\* "Check if already paid"
AlreadyPaid(appt) == appt.payment_state = "paid"

\* PaymentInitiateView.post (behind LoginRequiredMixin).
PaymentInitiate(pk, u, has_receipt) ==
    /\ pk \in ApptIds
    /\ IF role(u) = "customer" /\ appts[pk].customer # u
       THEN /\ Respond("error", << "You can only pay for your own appointments" >>)
            /\ UNCHANGED << appts, payments >>
       ELSE IF AlreadyPaid(appts[pk])
       THEN /\ Respond("info", << "This appointment is already paid" >>)
            /\ UNCHANGED << appts, payments >>
       ELSE IF ~ServiceHasDownpaymentFields
       THEN /\ Respond("AttributeError", NoReason)
            /\ UNCHANGED << appts, payments >>
       ELSE IF ~has_receipt
       THEN /\ Respond("error", << "Please upload a payment receipt" >>)
            /\ UNCHANGED << appts, payments >>
       ELSE /\ Len(payments) < MaxPayments
            /\ payments' = Append(payments,
                              [PaymentRow(pk, price(appts[pk].service), "paid", "full")
                                  EXCEPT !.method = "pay"])
            /\ appts' = [appts EXCEPT
                           ![pk] = save([appts[pk] EXCEPT !.payment_state = "paid"])]
            /\ Respond("success", NoReason)
    /\ UNCHANGED << stock, settingsRows, blocked, serviceDuration, slotLimits, now, reqs >>

\* The transaction of PaymentRetryView.post (lines 230-254) for the failed
\* payment and the appointment row the request loaded: the new payment, the
\* simulated processing, both saves. Nothing is stored when the simulation
\* raises.
RetryTransaction(payment, appointment, outcome) ==
    IF outcome = "raises"
    THEN /\ Respond("AttributeError", NoReason)
         /\ UNCHANGED << appts, payments >>
    ELSE /\ Len(payments) < MaxPayments
         /\ payments' = Append(payments,
                           [PaymentRow(payment.appointment, payment.amount,
                                       IF outcome = "success" THEN "paid" ELSE "failed",
                                       "full")
                               EXCEPT !.method = payment.method])
         /\ appts' = [appts EXCEPT ![payment.appointment] =
                         save([appointment EXCEPT
                                  !.payment_state =
                                      IF outcome = "success" THEN "paid" ELSE "failed"])]
         /\ Respond(IF outcome = "success" THEN "success" ELSE "error",
                    << "retried" >>)

\* PaymentRetryView.post (behind LoginRequiredMixin).
PaymentRetry(pk, u, mode, below_rate) ==
    /\ pk \in PaymentIds
    /\ LET payment == payments[pk]
           appointment == appts[payment.appointment]
       IN  IF role(u) = "customer" /\ appointment.customer # u
           THEN /\ Respond("error", << "You can only retry your own payments" >>)
                /\ UNCHANGED << appts, payments >>
           ELSE IF payment.status # "failed"
           THEN /\ Respond("error", << "Can only retry failed payments" >>)
                /\ UNCHANGED << appts, payments >>
           ELSE IF AlreadyPaid(appointment)
           THEN /\ Respond("info", << "This appointment is already paid via another transaction" >>)
                /\ UNCHANGED << appts, payments >>
           ELSE RetryTransaction(payment, appointment,
                                 simulate_demo_payment(mode, payment.method, below_rate))
    /\ UNCHANGED << stock, settingsRows, blocked, serviceDuration, slotLimits, now, reqs >>

\* PaymentAdmin.verify_payment on one selected payment (the admin site admits
\* staff users only).
VerifyPayment(pk, u) ==
    /\ pk \in PaymentIds
    /\ role(u) \in StaffOrAdminRoles
    /\ IF payments[pk].status # "pending"
       THEN UNCHANGED << appts, payments >>
       ELSE /\ payments' = [payments EXCEPT ![pk].status = "paid"]
            /\ appts' = [appts EXCEPT ![payments[pk].appointment] =
                            save([appts[payments[pk].appointment] EXCEPT
                                     !.payment_state = "paid",
                                     !.status = IF payments[pk].payment_type = "downpayment"
                                                THEN "confirmed" ELSE @])]
    /\ Respond("verified", NoReason)
    /\ UNCHANGED << stock, settingsRows, blocked, serviceDuration, slotLimits, now, reqs >>

\* ========================================== interleaved payment requests
\* PaymentRetryView.post reads the payment and the appointment and tests them
\* (lines 213-227) before it opens its transaction (line 230), and takes no
\* lock: other requests run between the tests and the transaction.

\* Lines 213-227: load the payment and its appointment, run the checks.
RetryBegin(r, pk, u) ==
    /\ reqs[r].pc = "idle"
    /\ pk \in PaymentIds
    /\ LET payment == payments[pk]
           appointment == appts[payment.appointment]
       IN  IF role(u) = "customer" /\ appointment.customer # u
           THEN /\ Respond("error", << "You can only retry your own payments" >>)
                /\ UNCHANGED reqs
           ELSE IF payment.status # "failed"
           THEN /\ Respond("error", << "Can only retry failed payments" >>)
                /\ UNCHANGED reqs
           ELSE IF AlreadyPaid(appointment)
           THEN /\ Respond("info", << "This appointment is already paid via another transaction" >>)
                /\ UNCHANGED reqs
           ELSE /\ reqs' = [reqs EXCEPT ![r] =
                               [op |-> "retry", pc |-> "checked",
                                payment |-> payment, appointment |-> appointment]]
                /\ UNCHANGED response
    /\ UNCHANGED << appts, payments, stock, settingsRows, blocked, serviceDuration, slotLimits, now >>

\* Lines 229-254: the transaction, on the rows the request loaded.
RetryCommit(r, mode, below_rate) ==
    /\ reqs[r].op = "retry"
    /\ reqs[r].pc = "checked"
    /\ RetryTransaction(reqs[r].payment, reqs[r].appointment,
                        simulate_demo_payment(mode, reqs[r].payment.method, below_rate))
    /\ reqs' = [reqs EXCEPT ![r] = IdleReq]
    /\ UNCHANGED << stock, settingsRows, blocked, serviceDuration, slotLimits, now >>

\* One appointment of cust1 whose last payment attempt failed.
PayRaceInit ==
    /\ serviceDuration = DefaultDurations
    /\ appts = << [NewAppointment("cust1", "haircut", SlotMinutes)
                      EXCEPT !.payment_state = "failed"] >>
    /\ payments \in { << PaymentRow(1, 500, "failed", "full") >>,
                      << [PaymentRow(1, 500, "failed", "full") EXCEPT !.method = "onsite"] >> }
    /\ stock = [i \in Items |-> IF i = "shampoo" THEN 12 ELSE 3]
    /\ settingsRows = {SavedSettingsRow(2, TRUE)}
    /\ blocked = {}
    /\ slotLimits = {}
    /\ now = 0
    /\ response = [outcome |-> "none", detail |-> NoReason]
    /\ reqs = [r \in 1..MaxReqs |-> IdleReq]

PayRaceNext ==
    \/ \E r \in 1..MaxReqs, pk \in 1..MaxPayments, u \in {"cust1", "cust2"} :
          RetryBegin(r, pk, u)
    \/ \E r \in 1..MaxReqs, mode \in DemoPaymentModes, below_rate \in BOOLEAN :
          RetryCommit(r, mode, below_rate)
    \/ \E pk \in 1..MaxAppts, u \in {"cust1", "cust2"}, has_receipt \in BOOLEAN :
          PaymentInitiate(pk, u, has_receipt)

PayRaceSpec == PayRaceInit /\ [][PayRaceNext]_vars

\* ========================================================= service updates
\* The durations staff post in the service form.
PostedDurations == {60, 90}

\* ServiceUpdateView.form_valid behind StaffOrAdminRequiredMixin.dispatch:
\* form.save() stores the posted duration_minutes.
ServiceUpdate(u, s, minutes) ==
    /\ IF role(u) \notin StaffOrAdminRoles
       THEN /\ Respond("forbidden", NoReason)
            /\ UNCHANGED serviceDuration
       ELSE /\ serviceDuration' = [serviceDuration EXCEPT ![s] = minutes]
            /\ Respond("success", NoReason)
    /\ UNCHANGED << appts, payments, stock, settingsRows, blocked, slotLimits, now, reqs >>

\* ================================================ an appointment's lifetime
\* One appointment booked by cust1, with the payment attempts made for it so
\* far; a second one can be booked.
LifeInit ==
    /\ serviceDuration = DefaultDurations
    /\ appts = << NewAppointment("cust1", "haircut", SlotMinutes) >>
    /\ payments \in { << >>,
                      << PaymentRow(1, 500, "failed", "full") >>,
                      << PaymentRow(1, 200, "pending", "downpayment") >> }
    /\ stock = [i \in Items |-> IF i = "shampoo" THEN 12 ELSE 3]
    /\ settingsRows = {SavedSettingsRow(2, TRUE)}
    /\ blocked = {}
    /\ slotLimits = {}
    /\ now = 0
    /\ response = [outcome |-> "none", detail |-> NoReason]
    /\ reqs = [r \in 1..MaxReqs |-> IdleReq]

LifeStatuses == {"in_progress", "completed", "no_show", "cancelled"}

LifeNext ==
    \/ \E t \in StartTimes : Create("cust1", "haircut", t)
    \/ \E pk \in 1..MaxAppts, reason \in CancelReasons : CancelView(pk, "cust1", reason)
    \/ \E pk \in 1..MaxAppts : Complete(pk, "staff1")
    \/ \E pk \in 1..MaxAppts, st \in LifeStatuses : UpdateStatus(pk, st, "staff1")
    \/ \E pk \in 1..MaxAppts, u \in {"cust1", "cust2"}, has_receipt \in BOOLEAN :
          PaymentInitiate(pk, u, has_receipt)
    \/ \E pk \in 1..MaxPayments, u \in {"cust1", "cust2"},
          mode \in DemoPaymentModes, below_rate \in BOOLEAN :
          PaymentRetry(pk, u, mode, below_rate)
    \/ \E pk \in 1..MaxPayments : VerifyPayment(pk, "staff1")
    \/ \E u \in StaffViewUsers, minutes \in PostedDurations :
          ServiceUpdate(u, "haircut", minutes)

LifeSpec == LifeInit /\ [][LifeNext]_vars

\* ================================================================== claims
\* The capacity the availability check compares against.
EffectiveCapacity == get_settings(settingsRows).max_concurrent

\* The slots of the time grid that appointments can cover.
GridTimes == {t * SlotMinutes : t \in 0..3}

\* The claims' tiered refund policy, on minutes until start and paid amount P.
PolicyRefund(minutes_until, P) ==
    IF minutes_until > 48 * 60 THEN P
    ELSE IF minutes_until > 24 * 60 THEN (P * 50) \div 100
    ELSE 0

\* The amount of the appointment's paid payment, 0 when it has none.
PaidAmount(pk) ==
    LET paid == {i \in 1..Len(payments) :
                    payments[i].appointment = pk /\ payments[i].status = "paid"}
    IN  IF paid = {} THEN 0
        ELSE payments[CHOOSE i \in paid : \A j \in paid : j <= i].amount

\* The items the appointment's service requires and the stock cannot cover.
Deficient(pk) ==
    LET items == service_items(appts[pk].service)
    IN  {items[k].item : k \in {n \in 1..Len(items) :
                                  stock[items[n].item] < items[n].qty_per_service}}

\* What one occurrence of the service takes from the item (0: not required).
RequiredQty(service, item) ==
    LET items == service_items(service)
        ks == {k \in 1..Len(items) : items[k].item = item}
    IN  IF ks = {} THEN 0 ELSE items[CHOOSE k \in ks : TRUE].qty_per_service

SeqRange(q) == {q[k] : k \in 1..Len(q)}

\* C1: in every reachable state, every slot of the time grid is covered by at
\* most EffectiveCapacity appointments of status pending, confirmed or
\* in_progress (the half-open overlap test against the slot's window).
C1_CapacityNeverExceeded ==
    \A t \in GridTimes :
        Cardinality(OverlappingAppointments(appts, t, t + SlotMinutes, 0))
            <= EffectiveCapacity

\* C3: no step changes the status of an appointment whose status is
\* completed, no_show or cancelled.
C3_TerminalStatusIsFinal ==
    [][\A pk \in 1..MaxAppts :
          (pk \in ApptIds /\ appts[pk].status \in TerminalStatuses)
              => appts'[pk].status = appts[pk].status]_vars

\* C4: a cancel request on an appointment whose status is completed, no_show
\* or cancelled answers with an error and leaves every appointment row (status,
\* cancelled_at, cancelled_by, cancellation_reason, refund_amount) unchanged.
C4_CancelOnTerminalIsNoOp ==
    [][\A pk \in 1..MaxAppts, u \in Users, reason \in CancelReasons :
          (CancelView(pk, u, reason) /\ appts[pk].status \in TerminalStatuses)
              => (response'.outcome = "error" /\ appts' = appts)]_vars

C4_Witness ==
    /\ response = [outcome |-> "error",
                   detail |-> << "Cannot cancel appointment with status" >>]
    /\ \E pk \in ApptIds : appts[pk].status = "no_show"

\* C6: every successful cancel request leaves the appointment cancelled with
\* cancelled_at = now, cancelled_by = the acting user, cancellation_reason =
\* the reason supplied and refund_amount = the tiered policy's refund.
C6_CancelRecordsCancellation ==
    [][\A pk \in 1..MaxAppts, u \in Users, reason \in CancelReasons :
          (CancelView(pk, u, reason) /\ response'.outcome = "success")
              => /\ appts'[pk].status = "cancelled"
                 /\ appts'[pk].cancelled_by = u
                 /\ appts'[pk].cancellation_reason = reason
                 /\ appts'[pk].refund_amount =
                        PolicyRefund(appts[pk].start_at - now, PaidAmount(pk))
                 /\ appts'[pk].cancelled_at # NULL
                 /\ appts'[pk].cancelled_at = now]_vars

\* C8: a complete request on an appointment that is not in_progress is not
\* carried out: it answers with a rejection and changes no appointment row
\* and no item's stock.
C8_CompleteRejectedUnlessInProgress ==
    [][\A pk \in 1..MaxAppts, u \in Users :
          (Complete(pk, u) /\ appts[pk].status # "in_progress")
              => /\ response'.outcome \in {"error", "forbidden"}
                 /\ appts' = appts
                 /\ stock' = stock]_vars

C8_Witness ==
    /\ response = [outcome |-> "error",
                   detail |-> << "Only in-progress appointments can be completed" >>]
    /\ \E pk \in ApptIds : appts[pk].status = "confirmed"

\* C9: with prevent_completion_on_insufficient_stock set, a complete request by
\* staff on an in_progress appointment whose service has a requirement with
\* item.stock < qty_per_service answers with an error naming exactly the
\* deficient items, and changes no item's stock and no appointment row.
C9_InsufficientStockRejects ==
    [][\A pk \in 1..MaxAppts, u \in Staff :
          (/\ Complete(pk, u)
           /\ appts[pk].status = "in_progress"
           /\ get_settings(settingsRows).prevent_completion_on_insufficient_stock
           /\ Deficient(pk) # {})
              => /\ response'.outcome = "error"
                 /\ Len(response'.detail) = 2
                 /\ SeqRange(response'.detail[2]) = Deficient(pk)
                 /\ stock' = stock
                 /\ appts' = appts]_vars

\* Two items reported at once.
C9_Witness ==
    /\ response.outcome = "error"
    /\ Len(response.detail) = 2
    /\ response.detail[1] = "Cannot complete: Insufficient inventory for"
    /\ Len(response.detail[2]) = 2
    /\ \E pk \in ApptIds : appts[pk].status = "in_progress"

\* C10: a successful complete request found the appointment in_progress,
\* leaves it completed, takes from every item exactly the quantity its service
\* requires of it (nothing from an item it does not require) and changes no
\* other appointment.
C10_CompleteDeductsExactly ==
    [][\A pk \in 1..MaxAppts, u \in Users :
          (Complete(pk, u) /\ response'.outcome = "success")
              => /\ appts[pk].status = "in_progress"
                 /\ appts' = [appts EXCEPT ![pk].status = "completed"]
                 /\ \A i \in Items :
                        stock'[i] = stock[i] - RequiredQty(appts[pk].service, i)]_vars

\* A haircut was completed: shampoo went down by 10, cream was left alone.
C10_Witness ==
    /\ response.outcome = "success"
    /\ \E pk \in ApptIds :
          appts[pk].status = "completed" /\ appts[pk].service = "haircut"
    /\ stock["shampoo"] = 2
    /\ stock["cream"] = 3
\* C2: however the checks and saves of concurrent booking requests interleave,
\* no slot of the time grid ends up covered by more counted appointments than
\* the capacity.
C2_ConcurrentCreatesRespectCapacity ==
    \A t \in GridTimes :
        Cardinality({pk \in ApptIds :
                        /\ appts[pk].status \in CountedStatuses
                        /\ appts[pk].start_at <= t
                        /\ t < appts[pk].end_at}) <= EffectiveCapacity

\* C7: no item's stock is ever negative, also while completion requests for
\* different appointments interleave.
C7_StockNeverNegative == \A i \in Items : stock[i] >= 0
\* C5: whenever calculate_refund has been applied to appointment 1, it
\* returned the tiered policy's refund for the minutes until start and the
\* amount of the appointment's paid payment: all of it above 48 hours, half of
\* it above 24 hours up to 48 hours, nothing at 24 hours or less.
C5_RefundFollowsTiers ==
    response.outcome \in {"refund", "TypeError"}
        => /\ response.outcome = "refund"
           /\ response.detail[2] =
                  PolicyRefund(appts[1].start_at - now, PaidAmount(1))
\* ------------------------------------------------ the five checks, one by one
\* Each constraint of a request for service s at start t (x: the appointment
\* left out of the count), stated on its own.
PastFails(t) == t < now

WindowFails(t) ==
    t > now + get_settings(settingsRows).booking_window_days * MinutesPerDay

BlackoutsOver(s, t) ==
    {b \in blocked : b.start_at < t + duration_minutes(s) /\ t < b.end_at}

BlackoutFails(s, t) == BlackoutsOver(s, t) # {}

CountedOver(s, t, x) ==
    {pk \in ApptIds :
        /\ appts[pk].status \in {"pending", "confirmed", "in_progress"}
        /\ appts[pk].start_at < t + duration_minutes(s)
        /\ appts[pk].end_at > t
        /\ pk # x}

CapacityFails(s, t, x) ==
    Cardinality(CountedOver(s, t, x)) >= get_settings(settingsRows).max_concurrent

InventoryFails(s) ==
    \E k \in 1..Len(service_items(s)) :
        stock[service_items(s)[k].item] < service_items(s)[k].qty_per_service

\* The earliest failing check in the order past-time, booking-window,
\* blackout, capacity, inventory.
EarliestFailure(s, t, x) ==
    IF PastFails(t) THEN "past"
    ELSE IF WindowFails(t) THEN "window"
    ELSE IF BlackoutFails(s, t) THEN "blackout"
    ELSE IF CapacityFails(s, t, x) THEN "capacity"
    ELSE IF InventoryFails(s) THEN "inventory"
    ELSE "none"

\* Which check a reason of check_availability speaks of.
ReasonKind(detail) ==
    IF detail = NoReason THEN "none"
    ELSE CASE detail[1] = "Cannot book appointments in the past" -> "past"
           [] detail[1] = "Cannot book more than days in advance" -> "window"
           [] detail[1] \in {"Time slot blocked", "Time slot is blocked"} -> "blackout"
           [] detail[1] = "Time slot full" -> "capacity"
           [] detail[1] = "Insufficient inventory" -> "inventory"
           [] OTHER -> "unknown"

\* Which check a reason of check_slot_availability speaks of.
SlotReasonKind(detail) ==
    IF detail = NoReason THEN "none"
    ELSE CASE detail[1] = "Time has passed" -> "past"
           [] detail[1] = "Beyond booking window" -> "window"
           [] detail[1] = "Full" -> "capacity"
           [] detail[1] = "No stock" -> "inventory"
           [] detail[1] = "Blocked" -> "blackout"
           [] detail[1] \in {b.reason : b \in blocked} -> "blackout"
           [] OTHER -> "unknown"

\* C11: in every state, for every service, start and excluded appointment,
\* check_availability and the calendar's check_slot_availability answer
\* available exactly when none of the five checks fails, and otherwise give
\* the reason of the earliest failing check in the order past-time,
\* booking-window, blackout, capacity, inventory.
C11_FirstFailingCheckWins ==
    /\ \A s \in Services, t \in AvailStartTimes, x \in 0..MaxAppts :
          LET verdict == check_availability(s, t, x)
          IN  /\ ReasonKind(verdict.reason) = EarliestFailure(s, t, x)
              /\ verdict.available = (EarliestFailure(s, t, x) = "none")
    /\ \A s \in Services, t \in AvailStartTimes :
          LET verdict == check_slot_availability(s, t, t + duration_minutes(s),
                                                 duration_minutes(s))
          IN  /\ SlotReasonKind(verdict.reason) = EarliestFailure(s, t, 0)
              /\ verdict.available = (EarliestFailure(s, t, 0) = "none")

\* A start in the past was asked for while a blocked range covers the hour
\* from that start: the answer is the past-time reason.
C11_Witness ==
    /\ response = [outcome |-> "unavailable",
                   detail |-> << "Cannot book appointments in the past" >>]
    /\ now = SlotMinutes
    /\ BlackoutFails("haircut", 0)

\* The slot limit rows whose (date, time_start, time_end) is the window of a
\* request for service s at start t.
MatchingSlotLimits(s, t) ==
    {l \in slotLimits : l.start_at = t /\ l.end_at = t + duration_minutes(s)}

\* The capacity of that window: the matching slot limit's max_slots when one
\* exists, the settings' max_concurrent otherwise.
EffectiveCapacityFor(s, t) ==
    IF MatchingSlotLimits(s, t) # {}
    THEN (CHOOSE l \in MatchingSlotLimits(s, t) : TRUE).max_slots
    ELSE get_settings(settingsRows).max_concurrent

\* C12: a booking request that passes the past-time, booking-window and
\* blackout checks is rejected as full exactly when the counted overlapping
\* appointments have reached the window's capacity: the matching slot limit's
\* max_slots, or max_concurrent when no slot limit matches.
C12_SlotLimitOverridesCapacity ==
    [][\A s \in Services, t \in BookStartTimes :
          (/\ ~PastFails(t) /\ ~WindowFails(t) /\ ~BlackoutFails(s, t)
           /\ Create("cust1", s, t))
              => ((ReasonKind(response'.detail) = "capacity")
                     = (Cardinality(CountedOver(s, t, 0))
                            >= EffectiveCapacityFor(s, t)))]_vars

\* C13: in every state, for every service s, start t and excluded appointment
\* x, the appointments the capacity check counts are exactly the stored ones
\* with status pending, confirmed or in_progress and
\* start_at < t + duration and end_at > t, other than x (so never a cancelled,
\* completed or no_show one, and never one that ends exactly at t); and a
\* request that passes the three earlier checks is reported full exactly when
\* that count has reached the capacity the check compares with.
C13_CapacityCountsCountedOverlaps ==
    \A s \in Services, t \in AvailStartTimes, x \in 0..MaxAppts :
        LET counted == {pk \in ApptIds :
                           /\ appts[pk].status \in {"pending", "confirmed", "in_progress"}
                           /\ appts[pk].start_at < t + duration_minutes(s)
                           /\ appts[pk].end_at > t
                           /\ pk # x}
        IN  /\ OverlappingAppointments(appts, t, t + duration_minutes(s), x) = counted
            /\ \A pk \in ApptIds :
                  (appts[pk].status \in TerminalStatuses \/ appts[pk].end_at = t)
                      => pk \notin OverlappingAppointments(appts, t,
                                                        t + duration_minutes(s), x)
            /\ (~PastFails(t) /\ ~WindowFails(t) /\ ~BlackoutFails(s, t))
                  => ((ReasonKind(check_availability(s, t, x).reason) = "capacity")
                         = (Cardinality(counted)
                                >= get_settings(settingsRows).max_concurrent))

\* With capacity 1, a lookup was answered full while the first of the two
\* stored appointments is completed and so occupies nothing.
C13_Witness ==
    /\ response = [outcome |-> "unavailable", detail |-> << "Time slot full", 1 >>]
    /\ Len(appts) = 2
    /\ appts[1].status = "completed"
    /\ appts[2].status = "confirmed"

\* The rejection names a blocked range stored over the window of service s at
\* start t: that range's reason, or the bare message when its reason is empty.
RejectedAsBlocked(resp, s, t) ==
    /\ resp.outcome = "error"
    /\ ReasonKind(resp.detail) = "blackout"
    /\ \E b \in BlackoutsOver(s, t) :
          IF Len(resp.detail) = 2 THEN resp.detail[2] = b.reason ELSE b.reason = ""

C15_RejectedBookingStoresNothing ==
    [][\A s \in Services, t \in BookStartTimes :
          (Create("cust1", s, t) /\ ~check_availability(s, t, 0).available)
              => /\ response'.outcome = "error"
                 /\ response'.detail = check_availability(s, t, 0).reason
                 /\ response'.detail # NoReason
                 /\ appts' = appts]_vars

\* A booking was rejected as full and the one stored appointment is all there is.
C15_Witness ==
    /\ response.outcome = "error"
    /\ ReasonKind(response.detail) = "capacity"
    /\ Len(appts) = 1

\* C16: the appointment a successful booking stores (no status given) has
\* status pending and payment_state unpaid.
C16_NewAppointmentStartsPending ==
    [][\A u \in BookingUsers, s \in Services, t \in StartTimes :
          (Create(u, s, t) /\ response'.outcome = "success")
              => /\ Len(appts') = Len(appts) + 1
                 /\ appts'[Len(appts')].status = "pending"
                 /\ appts'[Len(appts')].payment_state = "unpaid"]_vars

\* C18: a status update to cancelled that is carried out found the appointment
\* in a status that may be cancelled (not completed, no_show or cancelled) and
\* leaves it cancelled with cancelled_at and cancelled_by recorded.
C18_UpdateStatusCancelsThroughCancel ==
    [][\A pk \in 1..MaxAppts, u \in StaffViewUsers :
          (UpdateStatus(pk, "cancelled", u) /\ response'.outcome = "success")
              => /\ appts[pk].status \notin TerminalStatuses
                 /\ appts'[pk].status = "cancelled"
                 /\ appts'[pk].cancelled_at # NULL
                 /\ appts'[pk].cancelled_at = now
                 /\ appts'[pk].cancelled_by = u]_vars

\* C19: a status update to completed is rejected with nothing changed unless
\* the appointment is in_progress, is rejected with nothing changed when
\* completion is prevented on insufficient stock and an item is deficient, and
\* when carried out leaves the appointment completed with every item's stock
\* lowered by exactly what the service requires of it; and no status update
\* whatever moves an appointment to completed in any other way.
C19_UpdateToCompletedIsComplete ==
    [][\A pk \in 1..MaxAppts, u \in StaffViewUsers :
          /\ UpdateStatus(pk, "completed", u)
                => /\ (appts[pk].status # "in_progress"
                          => /\ response'.outcome \in {"error", "forbidden"}
                             /\ appts' = appts
                             /\ stock' = stock)
                   /\ (/\ appts[pk].status = "in_progress"
                       /\ get_settings(settingsRows).prevent_completion_on_insufficient_stock
                       /\ Deficient(pk) # {})
                          => /\ response'.outcome \in {"error", "forbidden"}
                             /\ appts' = appts
                             /\ stock' = stock
                   /\ response'.outcome = "success"
                          => /\ appts' = [appts EXCEPT ![pk].status = "completed"]
                             /\ \A i \in Items :
                                   stock'[i] = stock[i]
                                                  - RequiredQty(appts[pk].service, i)
          /\ \A st \in PostedStatuses :
                (/\ pk \in ApptIds
                 /\ appts[pk].status # "completed"
                 /\ appts'[pk].status = "completed"
                 /\ UpdateStatus(pk, st, u))
                    => /\ appts[pk].status = "in_progress"
                       /\ \A i \in Items :
                             stock'[i] = stock[i] - RequiredQty(appts[pk].service, i)]_vars

\* A rebond was completed: shampoo went down by 8 and cream by 3.
C19_Witness ==
    /\ response.outcome = "success"
    /\ \E pk \in ApptIds :
          appts[pk].status = "completed" /\ appts[pk].service = "rebond"
    /\ stock["shampoo"] = 4
    /\ stock["cream"] = 0

\* C20: a complete request by a user whose role is customer is denied, and
\* changes no appointment row and no item's stock.
C20_CustomerCannotComplete ==
    [][\A pk \in 1..MaxAppts, u \in Customers :
          Complete(pk, u)
              => /\ response'.outcome = "forbidden"
                 /\ appts' = appts
                 /\ stock' = stock]_vars

\* A request was denied while an appointment is in_progress and the stock
\* would cover its completion.
C20_Witness ==
    /\ response.outcome = "forbidden"
    /\ \E pk \in ApptIds :
          appts[pk].status = "in_progress" /\ Deficient(pk) = {}

\* C17: when a booking for service s at start t is stored and the counted
\* appointments overlapping its window thereby reach the window's capacity
\* (the matching slot limit's max_slots, or max_concurrent), a lookup for the
\* same service and start against the datastore as the booking left it, with
\* no excluded appointment, reports unavailable with the capacity-full reason.
C17_FullAfterBookingReachesCapacity ==
    [][\A s \in Services, t \in BookStartTimes :
          (/\ Create("cust1", s, t)
           /\ response'.outcome = "success"
           /\ Cardinality({pk \in 1..Len(appts') :
                              /\ appts'[pk].status \in CountedStatuses
                              /\ appts'[pk].start_at < t + duration_minutes(s)
                              /\ appts'[pk].end_at > t})
                  >= EffectiveCapacityFor(s, t))
              => LET verdict == CheckAvailabilityIn(appts', stock', settingsRows',
                                                    s, t, 0)
                 IN  /\ ~verdict.available
                     /\ ReasonKind(verdict.reason) = "capacity"]_vars

\* C21: an appointment's end_at is set when the appointment is created, to
\* start_at plus the duration its service has at that moment, and no later
\* step (cancel, complete, status update, payment, verification, a change of
\* the service's duration) changes it.
C21_EndAtSetOnceAtCreation ==
    [][ /\ Len(appts') >= Len(appts)
        /\ \A pk \in ApptIds : appts'[pk].end_at = appts[pk].end_at
        /\ \A pk \in (1..Len(appts')) \ ApptIds :
              appts'[pk].end_at =
                  appts'[pk].start_at + duration_minutes(appts'[pk].service) ]_vars

\* An appointment that was saved again, as completed or cancelled and with a
\* payment outcome, after its service's duration had been changed.
C21_Witness ==
    \E pk \in ApptIds :
        /\ appts[pk].end_at # appts[pk].start_at + duration_minutes(appts[pk].service)
        /\ appts[pk].status \in {"completed", "cancelled"}
        /\ appts[pk].payment_state \in {"paid", "failed"}

\* The stock every run starts with.
StartingStock == [i \in Items |-> IF i = "shampoo" THEN 12 ELSE 3]

\* What the completed appointments among the first k require of an item.
RECURSIVE CompletedDemand(_, _)
CompletedDemand(item, k) ==
    IF k = 0 THEN 0
    ELSE CompletedDemand(item, k - 1)
         + (IF appts[k].status = "completed"
            THEN RequiredQty(appts[k].service, item) ELSE 0)

\* C22: completion is all-or-nothing. In every reachable state each
\* appointment either is completed with every required item deducted, or is
\* still in progress with nothing deducted for it: the stock is the starting
\* stock less the requirements of exactly the completed appointments.
C22_CompleteAllOrNothing ==
    \A i \in Items : stock[i] = StartingStock[i] - CompletedDemand(i, Len(appts))

\* C23: cancelling stores the status and the cancellation record together.
\* In every reachable state an appointment is cancelled exactly when its
\* cancellation (cancelled_at, cancelled_by, with the refund) is recorded.
C23_CancelledIffCancellationRecorded ==
    \A pk \in ApptIds :
        (appts[pk].status = "cancelled")
            <=> (appts[pk].cancelled_at # NULL /\ appts[pk].cancelled_by # NULL)

\* What one deduction for each of the first k appointments takes of an item.
RECURSIVE DemandOfAll(_, _)
DemandOfAll(item, k) ==
    IF k = 0 THEN 0
    ELSE DemandOfAll(item, k - 1) + RequiredQty(appts[k].service, item)

\* C24: an appointment causes its service's deduction at most once. What has
\* been taken from an item since the start never exceeds one per-occurrence
\* quantity for each appointment there is.
C24_DeductedAtMostOncePerAppointment ==
    \A i \in Items : StartingStock[i] - stock[i] <= DemandOfAll(i, Len(appts))

\* C25: a booking attempt, accepted or rejected, leaves every item's stock as
\* it was before the call.
C25_CreateLeavesStockAlone ==
    [][ \A i \in Items :
            stock'[i] # stock[i]
                => ~(\E u \in BookingUsers, s \in Services, t \in BookStartTimes :
                        Create(u, s, t)) ]_vars

\* A booking was accepted, and a later one was turned down by the inventory
\* check, with the stock still what it was.
C25_Witness ==
    /\ Len(appts) = 2
    /\ response.outcome = "error"
    /\ response.detail # NoReason
    /\ response.detail[1] = "Insufficient inventory"
    /\ appts[2].status = "confirmed"

\* C26: the calendar's check_slot_availability, called with
\* end_at = start_at + duration, and the booking's check_availability with no
\* excluded appointment agree in every state, for every service and start:
\* one answers available exactly when the other does, and when they answer
\* unavailable their reasons speak of the same one of the five checks.
C26_ResolversAgree ==
    \A s \in Services, t \in AvailStartTimes :
        LET slot == check_slot_availability(s, t, t + duration_minutes(s),
                                            duration_minutes(s))
            book == check_availability(s, t, 0)
        IN  /\ slot.available = book.available
            /\ SlotReasonKind(slot.reason) = ReasonKind(book.reason)

\* The calendar lookup answered that a slot is full, in a state where the
\* booking check gives the capacity reason for some start and is satisfied
\* with another.
C26_Witness ==
    /\ response.outcome = "slot_unavailable"
    /\ SlotReasonKind(response.detail) = "capacity"
    /\ \E s \in Services, t \in AvailStartTimes :
          ReasonKind(check_availability(s, t, 0).reason) = "capacity"
    /\ \E s \in Services, t \in AvailStartTimes :
          check_availability(s, t, 0).available

\* How many candidates first, first + interval, first + 2 * interval, ...
\* end by last when each takes dur minutes.
CandidateCount(first, last, dur, interval) ==
    IF first + dur > last THEN 0 ELSE ((last - dur - first) \div interval) + 1

\* The list holds, in increasing order, exactly the candidates
\* first + k * interval that end by the end of the business day, each with
\* the verdict of check_slot_availability for that start.
ListsCandidates(slots, s, d, start_hour, end_hour, interval) ==
    LET first == d * MinutesPerDay + start_hour * MinutesPerHour
        last == d * MinutesPerDay + end_hour * MinutesPerHour
        dur == duration_minutes(s)
    IN  /\ Len(slots) = CandidateCount(first, last, dur, interval)
        /\ \A k \in 1..Len(slots) :
              LET t == first + (k - 1) * interval
                  verdict == check_slot_availability(s, t, t + dur, dur)
              IN  /\ slots[k].datetime = t
                  /\ t + dur <= last
                  /\ slots[k].is_available = verdict.available
                  /\ slots[k].reason = verdict.reason
        /\ first + Len(slots) * interval + dur > last

\* C27 as stated: get_available_slots returns, in increasing order, exactly
\* the candidates that end by the end of the business day (one ending exactly
\* then included, none when the duration exceeds the day), each with the
\* resolver's verdict, and changes no stored state.
C27_EnumerationStoresNothing ==
    [][ \A s \in Services, d \in SlotDates, h \in BusinessHours, i \in SlotIntervals :
            GetAvailableSlots(s, d, h[1], h[2], i)
                => /\ ListsCandidates(response'.detail, s, d, h[1], h[2], i)
                   /\ << appts, payments, stock, blocked, slotLimits, serviceDuration >>'
                          = << appts, payments, stock, blocked, slotLimits, serviceDuration >>
                   /\ settingsRows' = settingsRows ]_vars

\* C27 amended: as above, but the stored state is unchanged except that the
\* settings instance is created with its defaults when none exists yet.
C27_EnumerationStoresOnlyDefaultSettings ==
    [][ \A s \in Services, d \in SlotDates, h \in BusinessHours, i \in SlotIntervals :
            GetAvailableSlots(s, d, h[1], h[2], i)
                => /\ ListsCandidates(response'.detail, s, d, h[1], h[2], i)
                   /\ << appts, payments, stock, blocked, slotLimits, serviceDuration >>'
                          = << appts, payments, stock, blocked, slotLimits, serviceDuration >>
                   /\ settingsRows' = IF settingsRows = {}
                                      THEN {DefaultSettingsRow}
                                      ELSE settingsRows ]_vars

\* An enumeration answered with a list that has available and unavailable
\* slots and whose last slot ends exactly at the end of the second hour, on a
\* datastore whose settings row the enumeration created.
C27_Witness ==
    /\ response.outcome = "slots"
    /\ Len(response.detail) >= 2
    /\ \E k \in 1..Len(response.detail) : response.detail[k].is_available
    /\ \E k \in 1..Len(response.detail) : ~response.detail[k].is_available
    /\ response.detail[Len(response.detail)].datetime = 2 * MinutesPerHour - 30
    /\ settingsRows = {DefaultSettingsRow}

\* The lookup for service s at start t fails with the capacity reason and
\* nothing else stands in the way, and appointment pk is one of the counted
\* appointments overlapping the window.
FullOnlyByCapacity(s, t, pk) ==
    /\ ReasonKind(check_availability(s, t, 0).reason) = "capacity"
    /\ ~InventoryFails(s)
    /\ pk \in CountedOver(s, t, 0)

\* After the step the lookup for service s at start t is satisfied, so that
\* a booking for it is accepted.
ReleasedAfter(s, t) ==
    LET verdict == CheckAvailabilityIn(appts', stock', settingsRows', s, t, 0)
    IN  /\ ReasonKind(verdict.reason) # "capacity"
        /\ verdict.available

\* C28 as stated: when the lookup for a window fails only for capacity, a
\* successful cancel of one of the counted appointments overlapping it
\* leaves the window free: the lookup no longer gives the capacity reason and
\* a booking for it is accepted.
C28_CancelReleasesCapacity ==
    [][ \A pk \in ApptIds, s \in Services, t \in StartTimes :
            (/\ FullOnlyByCapacity(s, t, pk)
             /\ \E reason \in CancelReasons : CancelView(pk, "cust1", reason)
             /\ response'.outcome = "success")
                => ReleasedAfter(s, t) ]_vars

\* C28 amended: the same, for a window whose count of overlapping counted
\* appointments equals the capacity.
C28_CancelReleasesExactlyFullWindow ==
    [][ \A pk \in ApptIds, s \in Services, t \in StartTimes :
            (/\ FullOnlyByCapacity(s, t, pk)
             /\ Cardinality(CountedOver(s, t, 0)) = EffectiveCapacity
             /\ \E reason \in CancelReasons : CancelView(pk, "cust1", reason)
             /\ response'.outcome = "success")
                => ReleasedAfter(s, t) ]_vars

\* A cancelled appointment overlaps a window that holds one counted
\* appointment less than the capacity and that the lookup finds available,
\* right after a cancel answered success.
C28_Witness ==
    /\ response.outcome = "success"
    /\ \E pk \in ApptIds, s \in Services, t \in StartTimes :
          /\ appts[pk].status = "cancelled"
          /\ appts[pk].start_at < t + duration_minutes(s)
          /\ appts[pk].end_at > t
          /\ Cardinality(CountedOver(s, t, 0)) + 1 = EffectiveCapacity
          /\ Cardinality(CountedOver(s, t, 0)) >= 1
          /\ check_availability(s, t, 0).available

\* C29: there is never more than one settings row, and a row that exists
\* stays (same key, never deleted or joined by a second one through the
\* admin); a read of the settings leaves exactly one row, which it creates
\* with the defaults 3 and 30 when there was none and otherwise returns as it
\* is, without creating another.
C29_OneSettingsInstance ==
    [][ /\ Cardinality(settingsRows') <= 1
        /\ settingsRows # {} => {r.pk : r \in settingsRows'} = {r.pk : r \in settingsRows}
        /\ GetSettings
              => /\ Cardinality(settingsRows') = 1
                 /\ settingsRows = {} =>
                       /\ \A r \in settingsRows' :
                             /\ r.max_concurrent = 3
                             /\ r.booking_window_days = 30
                 /\ settingsRows # {} => settingsRows' = settingsRows
                 /\ \A r \in settingsRows' :
                       response'.detail = << r.pk, r.max_concurrent,
                                             r.booking_window_days >> ]_vars

\* The settings were read before any row existed and the row was changed in
\* the admin afterwards; an attempt to add or delete was turned down.
C29_Witness ==
    /\ response.outcome = "forbidden"
    /\ \E r \in settingsRows :
          /\ r.pk = 1
          /\ r.booking_window_days = DefaultBookingWindowDays
          /\ r.max_concurrent # DefaultMaxConcurrent

\* The payment records of an appointment.
PaymentsOf(rows, pk) == {k \in 1..Len(rows) : rows[k].appointment = pk}

\* C30: once an appointment is paid, no step of the payment requests adds a
\* payment record for it or moves its payment state from paid to failed.
C30_PaidStaysPaidAndAddsNothing ==
    [][ \A pk \in ApptIds :
            appts[pk].payment_state = "paid"
                => /\ PaymentsOf(payments', pk) = PaymentsOf(payments, pk)
                   /\ appts'[pk].payment_state # "failed" ]_vars
====
